---- MODULE Spec2Model ----
(***************************************************************************)
(* Model of esp32_controller.py (class HandControllerConfig): the serial   *)
(* transport with its reader thread, the response queue with its processor *)
(* thread, the response cleaner, the configuration parsers and the command *)
(* dispatcher run on the UI thread.                                        *)
(*                                                                         *)
(* Text is modelled at character level: a Python str is a sequence of      *)
(* one-character strings, so that the regular expression, split, strip and *)
(* substring tests of the source are computed as the source computes them. *)
(* The character 0x1B is written "ESC".  A Python float is modelled as an  *)
(* integer number of hundredths (0.8 is 80, 48.0 is 4800).                 *)
(*                                                                         *)
(* Tk widgets and Tk variables (throttle_var, pulley_var, the labels, the  *)
(* log text area, the message boxes) are the presentation layer and are    *)
(* not part of the state; the value a handler reads from a Tk variable is  *)
(* an input of the handler.                                                *)
(***************************************************************************)
EXTENDS Integers, Sequences, FiniteSets, TLC

\* ------------------------------------------------------------------ bounds
\* Longest chunk, counted in pieces, the cleaner inputs are built of.
MaxPieces == 3

\* Most lines of a chunk handed to the parser.
MaxBlockLines == 2

\* --------------------------------------------------------------- characters
Str(s) == [i \in 1..Len(s) |-> SubSeq(s, i, i)]

\* The printable ASCII characters 0x20..0x5F and 0x61..0x7E, in code order
\* (0x60 cannot be written in a string of this notation and is left out).
PrintableLow == Str(" !\"#$%&'()*+,-./0123456789:;<=>?@ABCDEFGHIJKLMNOPQRSTUVWXYZ[\\]^_")

PrintableHigh == Str("abcdefghijklmnopqrstuvwxyz{|}~")

ESC == <<"ESC">>

NL == <<"\n">>

CharSet ==
    {PrintableLow[i] : i \in 1..Len(PrintableLow)}
        \cup {PrintableHigh[i] : i \in 1..Len(PrintableHigh)}
        \cup {"ESC", "\n", "\t", "\r"}

\* Code point of a character (ASCII).
Ord == [c \in CharSet |->
          CASE c = "ESC" -> 27
            [] c = "\n" -> 10
            [] c = "\t" -> 9
            [] c = "\r" -> 13
            [] \E i \in 1..Len(PrintableLow) : PrintableLow[i] = c ->
                 31 + (CHOOSE i \in 1..Len(PrintableLow) : PrintableLow[i] = c)
            [] OTHER ->
                 96 + (CHOOSE i \in 1..Len(PrintableHigh) : PrintableHigh[i] = c)]

InRange(c, lo, hi) == Ord[lo] <= Ord[c] /\ Ord[c] <= Ord[hi]

\* str.isspace() for the characters of CharSet.
IsSpace(c) == c \in {" ", "\t", "\n", "\r"}

IsDigit(c) == InRange(c, "0", "9")

\* ------------------------------------------------------- Python str methods
\* s[i:i+len(pat)] == pat
MatchAt(s, pat, i) ==
    /\ i + Len(pat) - 1 <= Len(s)
    /\ \A k \in 1..Len(pat) : s[i + k - 1] = pat[k]

\* pat in s
Contains(s, pat) == \E i \in 1..(Len(s) - Len(pat) + 1) : MatchAt(s, pat, i)

\* The least element of a non-empty set of integers.
Min(S) == CHOOSE i \in S : \A j \in S : i <= j

Max(S) == CHOOSE i \in S : \A j \in S : j <= i

\* The least element of S, or d when S is empty.
MinOr(S, d) == IF S = {} THEN d ELSE Min(S)

MaxOr(S, d) == IF S = {} THEN d ELSE Max(S)

\* s.find(pat, i), 1-based, 0 when absent
FindFrom(s, pat, i) ==
    MinOr({j \in i..(Len(s) - Len(pat) + 1) : MatchAt(s, pat, j)}, 0)

\* s.split(sep), given i = s.find(sep)
RECURSIVE str_split(_, _)
str_split_at(s, sep, i) ==
    IF i = 0 THEN <<s>>
    ELSE <<SubSeq(s, 1, i - 1)>> \o str_split(SubSeq(s, i + Len(sep), Len(s)), sep)

\* s.split(sep)
str_split(s, sep) == str_split_at(s, sep, FindFrom(s, sep, 1))

\* s.split(sep, 1), given i = s.find(sep)
str_split1_at(s, sep, i) ==
    IF i = 0 THEN <<s>>
    ELSE <<SubSeq(s, 1, i - 1), SubSeq(s, i + Len(sep), Len(s))>>

\* s.split(sep, 1)
str_split1(s, sep) == str_split1_at(s, sep, FindFrom(s, sep, 1))

\* Index of the first character at or after s[i] that is not whitespace,
\* Len(s) + 1 when none.
SkipSpace(s, i) == MinOr({j \in i..Len(s) : ~IsSpace(s[j])}, Len(s) + 1)

\* Index of the last character at or before s[j] that is not whitespace, 0 when none.
SkipSpaceBack(s, j) == MaxOr({i \in 1..j : ~IsSpace(s[i])}, 0)

\* Index of the first whitespace character at or after s[i], Len(s) + 1 when none.
FindSpace(s, i) == MinOr({j \in i..Len(s) : IsSpace(s[j])}, Len(s) + 1)

\* s.strip()
str_strip(s) == SubSeq(s, SkipSpace(s, 1), SkipSpaceBack(s, Len(s)))

\* s.split() : the maximal runs of non-whitespace characters, from s[i] on
RECURSIVE str_split_ws_from(_, _)
str_split_ws_run(s, b, e) ==
    IF b > Len(s) THEN <<>>
    ELSE <<SubSeq(s, b, e - 1)>> \o str_split_ws_from(s, e)

str_split_ws_word(s, b) == str_split_ws_run(s, b, FindSpace(s, b))

str_split_ws_from(s, i) == str_split_ws_word(s, SkipSpace(s, i))

str_split_ws(s) == str_split_ws_from(s, 1)

\* s.lower()
LowerChar(c) ==
    IF InRange(c, "A", "Z") THEN CHOOSE d \in CharSet : Ord[d] = Ord[c] + 32 ELSE c

str_lower(s) == [i \in 1..Len(s) |-> LowerChar(s[i])]

\* '\n'.join(lines)
RECURSIVE str_join(_)
str_join(lines) ==
    IF Len(lines) = 0 THEN <<>>
    ELSE IF Len(lines) = 1 THEN lines[1]
    ELSE lines[1] \o NL \o str_join(Tail(lines))

\* The decimal value of a run of digits.
RECURSIVE DigitsValue(_)
DigitsValue(d) ==
    IF d = <<>> THEN 0
    ELSE 10 * DigitsValue(SubSeq(d, 1, Len(d) - 1)) + (Ord[d[Len(d)]] - 48)

AllDigits(d) == \A i \in 1..Len(d) : IsDigit(d[i])

HasSign(t) == t # <<>> /\ t[1] \in {"+", "-"}

IsNegative(t) == t # <<>> /\ t[1] = "-"

Signed(negative, magnitude) == IF negative THEN -magnitude ELSE magnitude

\* int() of stripped text t whose part after the optional sign is d.
py_int_digits(t, d) ==
    IF d # <<>> /\ AllDigits(d)
    THEN [ok |-> TRUE, val |-> Signed(IsNegative(t), DigitsValue(d))]
    ELSE [ok |-> FALSE, val |-> 0]

py_int_stripped(t) == py_int_digits(t, IF HasSign(t) THEN Tail(t) ELSE t)

\* int(s): surrounding whitespace is ignored, then an optional sign and one or
\* more decimal digits.  ok is FALSE where int() raises ValueError.
py_int(s) == py_int_stripped(str_strip(s))

\* float() of stripped text t with integer digits ip and fraction digits fp,
\* in hundredths; decimals beyond the second are cut off.
py_float_parts(t, ip, fp) ==
    IF AllDigits(ip) /\ AllDigits(fp) /\ Len(ip) + Len(fp) > 0
    THEN [ok |-> TRUE,
          val |-> Signed(IsNegative(t),
                         100 * DigitsValue(ip)
                             + DigitsValue(SubSeq(fp \o <<"0", "0">>, 1, 2)))]
    ELSE [ok |-> FALSE, val |-> 0]

\* u is t without its sign, p the index of the first point in u (0 when none).
py_float_point(t, u, p) ==
    py_float_parts(t,
                   IF p = 0 THEN u ELSE SubSeq(u, 1, p - 1),
                   IF p = 0 THEN <<>> ELSE SubSeq(u, p + 1, Len(u)))

py_float_unsigned(t, u) == py_float_point(t, u, FindFrom(u, <<".">>, 1))

py_float_stripped(t) == py_float_unsigned(t, IF HasSign(t) THEN Tail(t) ELSE t)

\* float(s), in hundredths: surrounding whitespace is ignored, then an optional
\* sign, digits, and an optional point with digits (at least one digit in all).
\* The bounded inputs carry at most two decimals.
py_float(s) == py_float_stripped(str_strip(s))

\* ---------------------------------------------------------- response cleaner
\* None, the absence clean_response returns; no text equals it.
None == <<"None">>

\* Index of the first character at or after s[i] that is outside lo..hi,
\* Len(s) + 1 when none.
SkipClass(s, i, lo, hi) == MinOr({j \in i..Len(s) : ~InRange(s[j], lo, hi)}, Len(s) + 1)

\* The branch \[[0-?]*[ -/]*[@-~] of the pattern, for s[i] = ESC, s[i+1] = "[" and
\* q the index after the parameter and intermediate runs.
ansi_escape_final_upper(s, i, q) ==
    IF q <= Len(s) /\ InRange(s[q], "@", "Z") THEN q - i + 1 ELSE 0

ansi_escape_final(s, i, q) ==
    IF q <= Len(s) /\ InRange(s[q], "@", "~") THEN q - i + 1 ELSE 0

\* Length of the match of  \x1B(?:[@-Z\\-_]|\[[0-?]*[ -/]*[@-~])  at s[i], 0 when
\* there is none.  The three classes of the second branch are disjoint, so the
\* greedy runs never give a character back.
ansi_escape_match(s, i) ==
    IF s[i] # "ESC" \/ i = Len(s) THEN 0
    ELSE IF InRange(s[i + 1], "@", "Z") \/ InRange(s[i + 1], "\\", "_") THEN 2
    ELSE IF s[i + 1] # "[" THEN 0
    ELSE ansi_escape_final(s, i, SkipClass(s, SkipClass(s, i + 2, "0", "?"), " ", "/"))

\* ansi_escape.sub('', s[i:]) : one pass, left to right, over non-overlapping
\* matches.  A match starts at an ESC, so the text up to the next ESC is copied.
RECURSIVE ansi_escape_sub(_, _)
ansi_escape_sub_at(s, i, n) ==
    IF n > 0 THEN ansi_escape_sub(s, i + n)
    ELSE <<s[i]>> \o ansi_escape_sub(s, i + 1)

ansi_escape_sub_from(s, i, e) ==
    IF e > Len(s) THEN SubSeq(s, i, Len(s))
    ELSE SubSeq(s, i, e - 1) \o ansi_escape_sub_at(s, e, ansi_escape_match(s, e))

ansi_escape_sub(s, i) ==
    ansi_escape_sub_from(s, i, MinOr({j \in i..Len(s) : s[j] = "ESC"}, Len(s) + 1))

skip_patterns ==
    { Str("I ("),
      Str("USB_SERIAL: Processing command:"),
      Str("USB_SERIAL: Parsed command type:"),
      Str("USB_SERIAL: Motor pulley teeth set to:"),
      Str("USB_SERIAL: Wheel pulley teeth set to:"),
      Str("USB_SERIAL: Wheel diameter set to:"),
      Str("USB_SERIAL: Motor poles set to:"),
      Str("USB_SERIAL: Throttle inversion:"),
      Str("USB_SERIAL: Level assistant:"),
      Str("USB_SERIAL: Odometer reset"),
      Str("USB_SERIAL: Configuration:"),
      Str("USB_SERIAL: Available commands:"),
      Str("USB_SERIAL: Unknown command:") }

\* The loop body without its test for the prompt.
line_is_kept_prompt(line) ==
    /\ line # <<>>
    /\ ~\E skip_pattern \in skip_patterns : Contains(line, skip_pattern)

\* The body of the loop of clean_response: whether the stripped line is appended.
line_is_kept(line) ==
    /\ line # <<>>
    /\ ~\E skip_pattern \in skip_patterns : Contains(line, skip_pattern)
    /\ line \notin {Str(">"), <<>>}

\* [line.strip() for line in lines]
RECURSIVE strip_lines(_)
strip_lines(lines) ==
    IF lines = <<>> THEN <<>>
    ELSE <<str_strip(Head(lines))>> \o strip_lines(Tail(lines))

\* return '\n'.join(filtered_lines) if filtered_lines else None
join_or_none(filtered_lines) ==
    IF filtered_lines # <<>> THEN str_join(filtered_lines) ELSE None

clean_response(response) ==
    join_or_none(SelectSeq(strip_lines(str_split(ansi_escape_sub(response, 1), NL)),
                           line_is_kept))

\* ------------------------------------------------------------ config parser
\* self.config as __init__ builds it.
DefaultConfig ==
    [ invert_throttle |-> FALSE,
      level_assistant |-> FALSE,
      motor_pulley |-> 15,
      wheel_pulley |-> 33,
      wheel_diameter_mm |-> 115,
      motor_poles |-> 14,
      ble_connected |-> FALSE,
      pid_kp |-> 80,
      pid_ki |-> 50,
      pid_kd |-> 5,
      pid_output_max |-> 4800 ]

\* if "<marker> ENABLED" in response: field = True  elif "<marker> DISABLED" ...
parse_enabled_disabled(config, response, marker, field) ==
    IF Contains(response, marker \o Str(" ENABLED"))
    THEN [config EXCEPT ![field] = TRUE]
    ELSE IF Contains(response, marker \o Str(" DISABLED"))
    THEN [config EXCEPT ![field] = FALSE]
    ELSE config

\* The assignment with a handler that stores 0 for a payload that is no number.
assign_parsed_zero(config, field, v) ==
    [config EXCEPT ![field] = IF v.ok THEN v.val ELSE 0]

\* try: config[field] = <parsed number>  except: pass
assign_parsed(config, field, v) ==
    IF v.ok THEN [config EXCEPT ![field] = v.val] ELSE config

\* The rule reading its payload with int() in place of float().
parse_float_set_to_int(config, response, marker, field) ==
    IF ~Contains(response, marker) THEN config
    ELSE assign_parsed(config, field, py_int(str_strip(str_split(response, marker)[2])))

\* if marker in response: try: field = float(response.split(marker)[1].strip())
\*                         except: pass
parse_float_set_to(config, response, marker, field) ==
    IF ~Contains(response, marker) THEN config
    ELSE assign_parsed(config, field, py_float(str_strip(str_split(response, marker)[2])))

\* float(line.split(":")[1].strip())
pid_params_value(line) == py_float(str_strip(str_split(line, Str(":"))[2]))

\* One line of the "=== Level Assistant PID Parameters ===" block.
parse_pid_params_line(config, line) ==
    IF Contains(line, Str("Kp (Proportional):"))
    THEN assign_parsed(config, "pid_kp", pid_params_value(line))
    ELSE IF Contains(line, Str("Ki (Integral):"))
    THEN assign_parsed(config, "pid_ki", pid_params_value(line))
    ELSE IF Contains(line, Str("Kd (Derivative):"))
    THEN assign_parsed(config, "pid_kd", pid_params_value(line))
    ELSE IF Contains(line, Str("Output Max:"))
    THEN assign_parsed(config, "pid_output_max", pid_params_value(line))
    ELSE config

RECURSIVE parse_pid_params_lines(_, _)
parse_pid_params_lines(config, lines) ==
    IF lines = <<>> THEN config
    ELSE parse_pid_params_lines(parse_pid_params_line(config, Head(lines)), Tail(lines))

parse_pid_params(config, response) ==
    IF Contains(response, Str("=== Level Assistant PID Parameters ==="))
    THEN parse_pid_params_lines(config, str_split(response, NL))
    ELSE config

\* if marker in response: try: field = int(response.split(marker)[1].strip())
\*                         except: pass
parse_int_set_to(config, response, marker, field) ==
    IF ~Contains(response, marker) THEN config
    ELSE assign_parsed(config, field, py_int(str_strip(str_split(response, marker)[2])))

\* int(response.split("Wheel diameter set to:")[1].split("mm")[0].strip())
parse_wheel_diameter_set_to(config, response) ==
    IF ~Contains(response, Str("Wheel diameter set to:")) THEN config
    ELSE assign_parsed(config, "wheel_diameter_mm",
             py_int(str_strip(str_split(str_split(response,
                                                  Str("Wheel diameter set to:"))[2],
                                        Str("mm"))[1])))

\* value.lower() in [...]
lower_in(value, words) == str_lower(value) \in words

\* diameter = value.split()[0] if ' ' in value else value
first_token(value) ==
    IF Contains(value, Str(" ")) THEN str_split_ws(value)[1] ELSE value

\* The if/elif chain of parse_config_display on the stripped key and value.
parse_config_display_pair(config, key, value) ==
    IF key \in {Str("Throttle Inverted"), Str("Throttle inversion")}
    THEN [config EXCEPT !.invert_throttle =
             lower_in(value, {Str("yes"), Str("enabled"), Str("true")})]
    ELSE IF key \in {Str("Level Assistant"), Str("Level assistant")}
    THEN [config EXCEPT !.level_assistant =
             lower_in(value, {Str("yes"), Str("enabled"), Str("true")})]
    ELSE IF key \in {Str("Motor Pulley Teeth"), Str("Motor pulley teeth")}
    THEN assign_parsed(config, "motor_pulley", py_int(value))
    ELSE IF key \in {Str("Wheel Pulley Teeth"), Str("Wheel pulley teeth")}
    THEN assign_parsed(config, "wheel_pulley", py_int(value))
    ELSE IF key \in {Str("Wheel Diameter"), Str("Wheel diameter")}
    THEN assign_parsed(config, "wheel_diameter_mm", py_int(first_token(value)))
    ELSE IF key \in {Str("Motor Poles"), Str("Motor poles")}
    THEN assign_parsed(config, "motor_poles", py_int(value))
    ELSE IF key \in {Str("BLE Connected"), Str("BLE connected")}
    THEN [config EXCEPT !.ble_connected =
             lower_in(value, {Str("yes"), Str("connected"), Str("true")})]
    ELSE config

\* key, value = line.split(':', 1); key = key.strip(); value = value.strip()
parse_config_display_kv(config, kv) ==
    parse_config_display_pair(config, str_strip(kv[1]), str_strip(kv[2]))

\* The body of the loop of parse_config_display, with its try/except.
parse_config_display_line(config, line) ==
    IF ~Contains(line, Str(":")) THEN config
    ELSE parse_config_display_kv(config, str_split1(line, Str(":")))

\* The loop with the try around it instead of inside it: the first line whose
\* number does not parse ends the loop.
RECURSIVE parse_config_display_lines_abort(_, _)
parse_config_display_lines_abort(config, lines) ==
    IF lines = <<>> THEN config
    ELSE IF /\ Contains(Head(lines), Str(":"))
            /\ \E word \in {Str("Teeth"), Str("teeth"), Str("Diameter"), Str("diameter"),
                              Str("Poles"), Str("poles")} :
                    Contains(str_split1(Head(lines), Str(":"))[1], word)
            /\ ~py_int(first_token(str_strip(str_split1(Head(lines), Str(":"))[2]))).ok
    THEN config
    ELSE parse_config_display_lines_abort(
             parse_config_display_line(config, Head(lines)), Tail(lines))

RECURSIVE parse_config_display_lines(_, _)
parse_config_display_lines(config, lines) ==
    IF lines = <<>> THEN config
    ELSE parse_config_display_lines(parse_config_display_line(config, Head(lines)),
                                    Tail(lines))

parse_config_display(config, response) ==
    parse_config_display_lines(config, str_split(response, NL))

display_keywords ==
    { Str("Throttle Inverted:"), Str("Motor Pulley Teeth:"), Str("Wheel Pulley Teeth:"),
      Str("Wheel Diameter:"), Str("Motor Poles:"), Str("BLE Connected:") }

\* The rules of parse_config_response before the display rule, in source order.
parse_config_confirmations(config, response) ==
    parse_int_set_to(
      parse_wheel_diameter_set_to(
        parse_int_set_to(
          parse_int_set_to(
            parse_pid_params(
              parse_float_set_to(
                parse_float_set_to(
                  parse_float_set_to(
                    parse_float_set_to(
                      parse_enabled_disabled(
                        parse_enabled_disabled(config, response,
                            Str("Throttle inversion:"), "invert_throttle"),
                        response, Str("Level assistant:"), "level_assistant"),
                      response, Str("PID Kp set to:"), "pid_kp"),
                    response, Str("PID Ki set to:"), "pid_ki"),
                  response, Str("PID Kd set to:"), "pid_kd"),
                response, Str("PID Output Max set to:"), "pid_output_max"),
              response),
            response, Str("Motor pulley teeth set to:"), "motor_pulley"),
          response, Str("Wheel pulley teeth set to:"), "wheel_pulley"),
        response),
      response, Str("Motor poles set to:"), "motor_poles")

\* if "Current Configuration" in response or "Configuration:" in response: ...
\* elif any(keyword in response for keyword in [...]): ...
is_config_display(response) ==
    \/ Contains(response, Str("Current Configuration"))
    \/ Contains(response, Str("Configuration:"))
    \/ \E keyword \in display_keywords : Contains(response, keyword)

parse_config_display_if(config, response) ==
    IF is_config_display(response) THEN parse_config_display(config, response)
    ELSE config

parse_config_response(config, response) ==
    parse_config_display_if(parse_config_confirmations(config, response), response)

\* if cleaned_response: self.parse_config_response(cleaned_response)
parse_cleaned(config, cleaned_response) ==
    IF cleaned_response # None
    THEN parse_config_response(config, cleaned_response)
    ELSE config

\* process_response: the configuration after the chunk is cleaned and, when
\* something remains, parsed.
process_response(config, response) == parse_cleaned(config, clean_response(response))

\* --------------------------------------------------------- exception flow
\* What the statements of the parser raise and which handler absorbs it.  The
\* value is "none" or the name of the exception class.

\* field = int(...) or field = float(...): a payload that is no number raises.
raised_by(v) == IF v.ok THEN "none" ELSE "ValueError"

\* The body without a handler around it: what it raises reaches the caller.
try_unguarded(exc) == exc

\* try: <body> except: pass, and try: <body> except Exception as e: print(...).
\* ValueError is a subclass of Exception, so both forms absorb it.
try_except(exc) == IF exc \in {"ValueError"} THEN "none" ELSE exc

\* What a sequence of statements raises, given what each of them raises.
raised_among(excs) == IF "ValueError" \in excs THEN "ValueError" ELSE "none"

\* The "set to:" rules, each inside its own try ... except: pass.
set_to_raised(response) ==
    { try_except(raised_by(py_float(str_strip(str_split(response, marker)[2])))) :
          marker \in { m \in { Str("PID Kp set to:"), Str("PID Ki set to:"),
                               Str("PID Kd set to:"), Str("PID Output Max set to:") } :
                         Contains(response, m) } }
    \cup
    { try_except(raised_by(py_int(str_strip(str_split(response, marker)[2])))) :
          marker \in { m \in { Str("Motor pulley teeth set to:"),
                               Str("Wheel pulley teeth set to:"),
                               Str("Motor poles set to:") } :
                         Contains(response, m) } }
    \cup
    { try_except(raised_by(py_int(str_strip(str_split(str_split(response, marker)[2],
                                                      Str("mm"))[1])))) :
          marker \in {m \in {Str("Wheel diameter set to:")} : Contains(response, m)} }

\* The lines of the PID parameter block, each inside its own try ... except: pass.
pid_params_raised(response) ==
    IF ~Contains(response, Str("=== Level Assistant PID Parameters ===")) THEN {}
    ELSE { try_except(raised_by(pid_params_value(str_split(response, NL)[i]))) :
               i \in { j \in DOMAIN str_split(response, NL) :
                         \E key \in { Str("Kp (Proportional):"), Str("Ki (Integral):"),
                                      Str("Kd (Derivative):"), Str("Output Max:") } :
                             Contains(str_split(response, NL)[j], key) } }

\* What the if/elif chain of parse_config_display raises on a key and a value.
display_pair_raised(key, value) ==
    IF key \in { Str("Motor Pulley Teeth"), Str("Motor pulley teeth"),
                 Str("Wheel Pulley Teeth"), Str("Wheel pulley teeth"),
                 Str("Motor Poles"), Str("Motor poles") }
    THEN raised_by(py_int(value))
    ELSE IF key \in {Str("Wheel Diameter"), Str("Wheel diameter")}
    THEN raised_by(py_int(first_token(value)))
    ELSE "none"

\* The loop of parse_config_display: the try is inside the loop.
display_line_raised(line) ==
    IF ~Contains(line, Str(":")) THEN "none"
    ELSE try_except(display_pair_raised(str_strip(str_split1(line, Str(":"))[1]),
                                        str_strip(str_split1(line, Str(":"))[2])))

display_raised(response) ==
    IF ~is_config_display(response) THEN {}
    ELSE { display_line_raised(str_split(response, NL)[i]) :
               i \in DOMAIN str_split(response, NL) }

\* parse_config_response: the try around the whole body.
parse_config_response_raises(response) ==
    try_except(raised_among(set_to_raised(response) \cup pid_params_raised(response)
                                \cup display_raised(response)))

\* process_response: nothing is parsed when the cleaner returns None.
process_response_raises(response) ==
    IF clean_response(response) = None THEN "none"
    ELSE parse_config_response_raises(clean_response(response))

\* -------------------------------------------------------------------- state
VARIABLES
    config,          \* self.config
    is_connected,    \* self.is_connected
    serial_port,     \* self.serial_port: "None", or a Serial object, "open" or "closed"
    rx,              \* lines the device has sent that wait in the port's input buffer
    tx_count,        \* history: commands the UI thread has written to the port
    response_queue,  \* self.response_queue
    readers,         \* the read_serial threads: position and local variable line
    processor,       \* the process_responses thread: "running", or "dead" after an exception
    ui_pc,           \* position of the UI thread inside connect / disconnect
    ui_last,         \* history: the last handler the UI thread ran and how it ended
    next_id,         \* history: serial number of the next line the device sends
    processed,       \* history: serial numbers of the lines process_response has seen
    chunk,           \* a function's input: the chunk
    plain,           \* a function's input: the lines the chunk was built from
    cleaned,         \* a function's result: clean_response(chunk)
    recleaned,       \* a function's result: clean_response(cleaned)
    config0,         \* a function's input: the configuration before it ran
    phase            \* which functions have been applied so far

programVars ==
    <<config, is_connected, serial_port, rx, tx_count, response_queue, readers, processor,
      ui_pc, ui_last, next_id, processed>>

harnessVars == <<chunk, plain, cleaned, recleaned, config0, phase>>

vars ==
    <<config, is_connected, serial_port, rx, tx_count, response_queue, readers, processor,
      ui_pc, ui_last, next_id, processed, chunk, plain, cleaned, recleaned, config0, phase>>

\* More bounds of the model.
\* read_serial threads that can exist at a time.
MaxReaders == 2

\* Lines the device sends in a run.
MaxLines == 2

\* Commands the UI thread writes to the port in one run.
MaxWrites == 2

Readers == 1..MaxReaders

NoLine == [id |-> 0, text |-> <<>>]

NoEvent == [handler |-> "none", value |-> 0, outcome |-> "none"]

Event(h, v, o) == [handler |-> h, value |-> v, outcome |-> o]

\* A thread object exists and has not returned.
Alive(r) == readers[r].pc \notin {"none", "done"}

\* __init__ : the state after construction (start_response_thread has run, no
\* port is open, no reader exists); InitIdle is all of it but self.config.
InitIdle ==
    /\ is_connected = FALSE
    /\ serial_port = "None"
    /\ rx = <<>>
    /\ tx_count = 0
    /\ response_queue = <<>>
    /\ readers = [r \in Readers |-> [pc |-> "none", line |-> NoLine]]
    /\ processor = "running"
    /\ ui_pc = "idle"
    /\ ui_last = NoEvent
    /\ next_id = 1
    /\ processed = <<>>

InitProgram == config = DefaultConfig /\ InitIdle

HarnessOff ==
    /\ chunk = <<>>
    /\ plain = <<>>
    /\ cleaned = None
    /\ recleaned = None
    /\ config0 = DefaultConfig
    /\ phase = "off"

\* ------------------------------------------------- connect and disconnect
\* connect with the flag set before the port is opened: the failed open leaves
\* is_connected true.
connect_fail_flagged ==
    /\ ui_pc = "idle"
    /\ ~is_connected
    /\ is_connected' = TRUE
    /\ ui_last' = Event("connect", 0, "failed")
    /\ UNCHANGED <<config, serial_port, rx, tx_count, response_queue, readers, ui_pc,
                   next_id, processed>>
    /\ UNCHANGED harnessVars
    /\ UNCHANGED processor

\* toggle_connection -> connect: serial.Serial(...) raises; the handler shows the
\* error and returns.
connect_fail ==
    /\ ui_pc = "idle"
    /\ ~is_connected
    /\ ui_last' = Event("connect", 0, "failed")
    /\ UNCHANGED <<config, is_connected, serial_port, rx, tx_count, response_queue,
                   readers, ui_pc, next_id, processed>>
    /\ UNCHANGED harnessVars
    /\ UNCHANGED processor

\* toggle_connection -> connect: self.serial_port = serial.Serial(...)
connect_open ==
    /\ ui_pc = "idle"
    /\ ~is_connected
    /\ \E r \in Readers : ~Alive(r)
    /\ serial_port' = "open"
    /\ rx' = <<>>
    /\ ui_pc' = "connect_opened"
    /\ UNCHANGED <<config, is_connected, tx_count, response_queue, readers, ui_last,
                   next_id, processed>>
    /\ UNCHANGED harnessVars
    /\ UNCHANGED processor

\* connect: self.is_connected = True
connect_set_flag ==
    /\ ui_pc = "connect_opened"
    /\ is_connected' = TRUE
    /\ ui_pc' = "connect_flagged"
    /\ UNCHANGED <<config, serial_port, rx, tx_count, response_queue, readers, ui_last,
                   next_id, processed>>
    /\ UNCHANGED harnessVars
    /\ UNCHANGED processor

\* connect: self.start_reading_thread(), a new read_serial thread about to
\* evaluate its while condition.
start_reading_thread ==
    /\ ui_pc = "connect_flagged"
    /\ LET r == CHOOSE q \in Readers : ~Alive(q)
       IN  readers' = [readers EXCEPT ![r] = [pc |-> "while", line |-> NoLine]]
    /\ ui_pc' = "idle"
    /\ ui_last' = Event("connect", 0, "connected")
    /\ UNCHANGED <<config, is_connected, serial_port, rx, tx_count, response_queue,
                   next_id, processed>>
    /\ UNCHANGED harnessVars
    /\ UNCHANGED processor

\* toggle_connection -> disconnect: if self.serial_port: self.serial_port.close()
disconnect_close ==
    /\ ui_pc = "idle"
    /\ is_connected
    /\ serial_port' = IF serial_port = "None" THEN "None" ELSE "closed"
    /\ rx' = <<>>
    /\ ui_pc' = "disconnect_closed"
    /\ UNCHANGED <<config, is_connected, tx_count, response_queue, readers, ui_last,
                   next_id, processed>>
    /\ UNCHANGED harnessVars
    /\ UNCHANGED processor

\* disconnect: self.serial_port = None
disconnect_clear_port ==
    /\ ui_pc = "disconnect_closed"
    /\ serial_port' = "None"
    /\ ui_pc' = "disconnect_cleared"
    /\ UNCHANGED <<config, is_connected, rx, tx_count, response_queue, readers, ui_last,
                   next_id, processed>>
    /\ UNCHANGED harnessVars
    /\ UNCHANGED processor

\* disconnect without its assignment to is_connected: the flag stays set.
disconnect_flag_kept ==
    /\ ui_pc = "disconnect_cleared"
    /\ ui_pc' = "idle"
    /\ ui_last' = Event("disconnect", 0, "disconnected")
    /\ UNCHANGED <<config, is_connected, serial_port, rx, tx_count, response_queue,
                   readers, next_id, processed>>
    /\ UNCHANGED harnessVars
    /\ UNCHANGED processor

\* disconnect: self.is_connected = False
disconnect_clear_flag ==
    /\ ui_pc = "disconnect_cleared"
    /\ is_connected' = FALSE
    /\ ui_pc' = "idle"
    /\ ui_last' = Event("disconnect", 0, "disconnected")
    /\ UNCHANGED <<config, serial_port, rx, tx_count, response_queue, readers, next_id,
                   processed>>
    /\ UNCHANGED harnessVars
    /\ UNCHANGED processor

\* ----------------------------------------------------------- dispatch (UI)
\* What a Tk IntVar / DoubleVar hands to a handler: a number, or TclError when
\* the entry text is not a number and get() raises.  Doubles are in hundredths.
Number(n) == [ok |-> TRUE, val |-> n]

TclError == [ok |-> FALSE, val |-> 0]

IntVarValues == {Number(n) : n \in {-1, 0, 1, 255, 256}} \cup {TclError}

DoubleVarValues(lo, hi) == {Number(n) : n \in {lo - 1, lo, hi, hi + 1}} \cup {TclError}

\* What stays as it is in every dispatch handler.
DispatchFrame ==
    /\ UNCHANGED <<is_connected, serial_port, rx, response_queue, readers, ui_pc,
                   next_id, processed>>
    /\ UNCHANGED harnessVars
    /\ UNCHANGED processor

\* if not self.is_connected: messagebox.showwarning(...); return
not_connected(h) ==
    /\ ui_last' = Event(h, 0, "not_connected")
    /\ UNCHANGED <<config, tx_count>>

\* send_serial_command: self.serial_port.write(...) either returns or raises
\* (no port object, a closed port, a write timeout); the except shows the error.
send_serial_command(h, v) ==
    \/ /\ serial_port = "open"
       /\ tx_count' = tx_count + 1
       /\ ui_last' = Event(h, v, "sent")
    \/ /\ tx_count' = tx_count
       /\ ui_last' = Event(h, v, "send_error")

\* A handler that sends a fixed command.
send_fixed(h) ==
    /\ ui_pc = "idle"
    /\ tx_count < MaxWrites
    /\ IF ~is_connected
       THEN not_connected(h)
       ELSE send_serial_command(h, 0) /\ config' = config
    /\ DispatchFrame

toggle_throttle == send_fixed("toggle_throttle")

toggle_level_assistant == send_fixed("toggle_level_assistant")

\* reset_odometer without its connection check.
reset_odometer_unguarded ==
    /\ ui_pc = "idle"
    /\ tx_count < MaxWrites
    /\ send_serial_command("reset_odometer", 0)
    /\ config' = config
    /\ DispatchFrame

reset_odometer == send_fixed("reset_odometer")

get_config == send_fixed("get_config")

show_help == send_fixed("show_help")

get_calibration == send_fixed("get_calibration")

get_pid_params == send_fixed("get_pid_params")

\* calibrate_throttle asks for confirmation before it sends.
calibrate_throttle(yes) ==
    /\ ui_pc = "idle"
    /\ tx_count < MaxWrites
    /\ IF ~is_connected
       THEN not_connected("calibrate_throttle")
       ELSE IF yes
       THEN send_serial_command("calibrate_throttle", 0) /\ config' = config
       ELSE /\ ui_last' = Event("calibrate_throttle", 0, "declined")
            /\ UNCHANGED <<config, tx_count>>
    /\ DispatchFrame

\* The integer setters with the lower comparison off by one (v < 0).
set_integer_zero_accepted(h, v) ==
    /\ ui_pc = "idle"
    /\ tx_count < MaxWrites
    /\ IF ~is_connected
       THEN not_connected(h)
       ELSE IF ~v.ok
       THEN ui_last' = Event(h, 0, "invalid") /\ UNCHANGED <<config, tx_count>>
       ELSE IF v.val < 0 \/ v.val > 255
       THEN ui_last' = Event(h, v.val, "rejected") /\ UNCHANGED <<config, tx_count>>
       ELSE send_serial_command(h, v.val) /\ config' = config
    /\ DispatchFrame

\* The integer setters: if v <= 0 or v > 255: showerror; return.  TclError is
\* not a ValueError: it leaves the handler and Tk reports it.
set_integer(h, v) ==
    /\ ui_pc = "idle"
    /\ tx_count < MaxWrites
    /\ IF ~is_connected
       THEN not_connected(h)
       ELSE IF ~v.ok
       THEN ui_last' = Event(h, 0, "invalid") /\ UNCHANGED <<config, tx_count>>
       ELSE IF v.val <= 0 \/ v.val > 255
       THEN ui_last' = Event(h, v.val, "rejected") /\ UNCHANGED <<config, tx_count>>
       ELSE send_serial_command(h, v.val) /\ config' = config
    /\ DispatchFrame

set_motor_pulley(v) == set_integer("set_motor_pulley", v)

set_wheel_pulley(v) == set_integer("set_wheel_pulley", v)

set_wheel_size(v) == set_integer("set_wheel_size", v)

set_motor_poles(v) == set_integer("set_motor_poles", v)

\* The PID setters: if v < lo or v > hi: showerror; return.  Then
\* self.config[field] = v, and only then send_serial_command.
set_pid(h, field, lo, hi, v) ==
    /\ ui_pc = "idle"
    /\ tx_count < MaxWrites
    /\ IF ~is_connected
       THEN not_connected(h)
       ELSE IF ~v.ok
       THEN ui_last' = Event(h, 0, "invalid") /\ UNCHANGED <<config, tx_count>>
       ELSE IF v.val < lo \/ v.val > hi
       THEN ui_last' = Event(h, v.val, "rejected") /\ UNCHANGED <<config, tx_count>>
       ELSE /\ config' = [config EXCEPT ![field] = v.val]
            /\ send_serial_command(h, v.val)
    /\ DispatchFrame

set_pid_kp(v) == set_pid("set_pid_kp", "pid_kp", 0, 1000, v)

set_pid_ki(v) == set_pid("set_pid_ki", "pid_ki", 0, 200, v)

set_pid_kd(v) == set_pid("set_pid_kd", "pid_kd", 0, 100, v)

set_pid_output_max(v) == set_pid("set_pid_output_max", "pid_output_max", 1000, 10000, v)

\* ------------------------------------------------------------ reader thread
SetReader(r, pc, line) == readers' = [readers EXCEPT ![r] = [pc |-> pc, line |-> line]]

\* while self.is_connected and self.serial_port:   (after time.sleep(0.01))
read_serial_while(r) ==
    /\ readers[r].pc = "while"
    /\ IF is_connected /\ serial_port # "None"
       THEN SetReader(r, "in_waiting", NoLine)
       ELSE SetReader(r, "done", NoLine)
    /\ UNCHANGED <<config, is_connected, serial_port, rx, tx_count, response_queue, ui_pc,
                   ui_last, next_id, processed>>
    /\ UNCHANGED harnessVars
    /\ UNCHANGED processor

\* if self.serial_port.in_waiting:   (None and a closed port raise: except, break)
read_serial_in_waiting(r) ==
    /\ readers[r].pc = "in_waiting"
    /\ IF serial_port # "open" THEN SetReader(r, "done", NoLine)
       ELSE IF rx # <<>> THEN SetReader(r, "readline", NoLine)
       ELSE SetReader(r, "while", NoLine)
    /\ UNCHANGED <<config, is_connected, serial_port, rx, tx_count, response_queue, ui_pc,
                   ui_last, next_id, processed>>
    /\ UNCHANGED harnessVars
    /\ UNCHANGED processor

\* line = self.serial_port.readline().decode('utf-8', errors='ignore').strip()
\* if line:   (an empty buffer makes readline return b'' at its timeout)
read_serial_readline(r) ==
    /\ readers[r].pc = "readline"
    /\ IF serial_port # "open"
       THEN SetReader(r, "done", NoLine) /\ rx' = rx
       ELSE IF rx = <<>>
       THEN SetReader(r, "while", NoLine) /\ rx' = rx
       ELSE /\ rx' = Tail(rx)
            /\ LET line == [id |-> Head(rx).id, text |-> str_strip(Head(rx).text)]
               IN  IF line.text # <<>>
                   THEN SetReader(r, "put", line)
                   ELSE SetReader(r, "while", NoLine)
    /\ UNCHANGED <<config, is_connected, serial_port, tx_count, response_queue, ui_pc,
                   ui_last, next_id, processed>>
    /\ UNCHANGED harnessVars
    /\ UNCHANGED processor

\* self.response_queue.put(line)
read_serial_put(r) ==
    /\ readers[r].pc = "put"
    /\ response_queue' = Append(response_queue, readers[r].line)
    /\ SetReader(r, "while", NoLine)
    /\ UNCHANGED <<config, is_connected, serial_port, rx, tx_count, ui_pc, ui_last, next_id,
                   processed>>
    /\ UNCHANGED harnessVars
    /\ UNCHANGED processor

\* The open port raises in in_waiting or readline (the device went away):
\* except Exception: print(...); break
read_serial_error(r) ==
    /\ readers[r].pc \in {"in_waiting", "readline"}
    /\ serial_port = "open"
    /\ SetReader(r, "done", NoLine)
    /\ UNCHANGED <<config, is_connected, serial_port, rx, tx_count, response_queue, ui_pc,
                   ui_last, next_id, processed>>
    /\ UNCHANGED harnessVars
    /\ UNCHANGED processor

\* --------------------------------------------------------- processor thread
\* while True: try: response = self.response_queue.get(timeout=0.1)
\*                  self.process_response(response)
\*             except queue.Empty: continue
\* Only queue.Empty is handled: any other exception ends the thread.
process_responses ==
    /\ processor = "running"
    /\ response_queue # <<>>
    /\ config' = process_response(config, Head(response_queue).text)
    /\ IF process_response_raises(Head(response_queue).text) = "none"
       THEN /\ processed' = Append(processed, Head(response_queue).id)
            /\ processor' = "running"
       ELSE /\ processed' = processed
            /\ processor' = "dead"
    /\ response_queue' = Tail(response_queue)
    /\ UNCHANGED <<is_connected, serial_port, rx, tx_count, readers, ui_pc, ui_last, next_id>>
    /\ UNCHANGED harnessVars

\* ------------------------------------------------------------------- device
\* Lines the device firmware prints (without their line terminator).
DeviceLines ==
    { Str("Throttle inversion: ENABLED"),
      Str("  ") }

\* The device prints a line; it arrives in the input buffer of the open port.
device_send_line ==
    /\ serial_port = "open"
    /\ next_id <= MaxLines
    /\ \E text \in DeviceLines : rx' = Append(rx, [id |-> next_id, text |-> text])
    /\ next_id' = next_id + 1
    /\ UNCHANGED <<config, is_connected, serial_port, tx_count, response_queue, readers,
                   ui_pc, ui_last, processed>>
    /\ UNCHANGED harnessVars
    /\ UNCHANGED processor

\* ------------------------------------------------------------ specification
Init == InitProgram /\ HarnessOff

Next ==
    \/ connect_fail
    \/ connect_open
    \/ connect_set_flag
    \/ start_reading_thread
    \/ disconnect_close
    \/ disconnect_clear_port
    \/ disconnect_clear_flag
    \/ \E r \in Readers : read_serial_while(r)
    \/ \E r \in Readers : read_serial_in_waiting(r)
    \/ \E r \in Readers : read_serial_readline(r)
    \/ \E r \in Readers : read_serial_put(r)
    \/ \E r \in Readers : read_serial_error(r)
    \/ process_responses
    \/ device_send_line

Spec == Init /\ [][Next]_vars

\* A step of the read_serial thread r.
read_serial(r) ==
    \/ read_serial_while(r)
    \/ read_serial_in_waiting(r)
    \/ read_serial_readline(r)
    \/ read_serial_put(r)
    \/ read_serial_error(r)

\* Scheduling: the processor thread and every reader thread are daemon threads
\* that sleep or block for at most their timeout (0.1 s, 0.01 s, 1 s) and then
\* run again, so a thread that can take a step eventually takes one.  The user
\* and the device are free to stop.
\* For the processor this is WF_vars(process_responses) with
\* ENABLED <<process_responses>>_vars written as the state predicate it equals
\* (a step of the processor always shortens the queue).
Fairness ==
    /\ \/ []<>~(processor = "running" /\ response_queue # <<>>)
       \/ []<><<process_responses>>_vars
    /\ \A r \in Readers : WF_vars(read_serial(r))

SpecFair == Spec /\ Fairness

\* ------------------------------------------------------ one connection
\* The state connect leaves behind on a fresh object: the port is open, the
\* flag is set and the first read_serial thread is about to check its loop
\* condition.
InitConnected ==
    /\ config = DefaultConfig
    /\ is_connected = TRUE
    /\ serial_port = "open"
    /\ rx = <<>>
    /\ tx_count = 0
    /\ response_queue = <<>>
    /\ readers = [r \in Readers |-> [pc |-> IF r = 1 THEN "while" ELSE "none",
                                      line |-> NoLine]]
    /\ processor = "running"
    /\ ui_pc = "idle"
    /\ ui_last = Event("connect", 0, "connected")
    /\ next_id = 1
    /\ processed = <<>>
    /\ HarnessOff

\* Lines a device can print during the connection: display lines, a
\* confirmation whose payload is no number, the prompt.
ReportLines ==
    { Str("Level Assistant: Yes"),
      Str("Motor Poles: 0"),
      Str("PID Kp set to: abc"),
      Str(">") }

device_send_report ==
    /\ serial_port = "open"
    /\ next_id <= MaxLines
    /\ \E text \in ReportLines : rx' = Append(rx, [id |-> next_id, text |-> text])
    /\ next_id' = next_id + 1
    /\ UNCHANGED <<config, is_connected, serial_port, tx_count, response_queue, readers,
                   ui_pc, ui_last, processed>>
    /\ UNCHANGED harnessVars
    /\ UNCHANGED processor

\* The connection from its start to the user's disconnect.
NextSession ==
    \/ disconnect_close
    \/ disconnect_clear_port
    \/ disconnect_clear_flag
    \/ \E r \in Readers : read_serial(r)
    \/ process_responses
    \/ device_send_report

SpecSession == InitConnected /\ [][NextSession]_vars

SpecSessionFair == SpecSession /\ Fairness

\* The device's answer to get_pid_params, line by line.
PidParamsResponse ==
    << Str("=== Level Assistant PID Parameters ==="),
       Str("Kp (Proportional): 1.5"),
       Str("Ki (Integral): 0.7"),
       Str("Kd (Derivative): 0.1"),
       Str("Output Max: 60.0") >>

\* The device prints the next line of the answer.
device_send_pid_params ==
    /\ serial_port = "open"
    /\ next_id <= Len(PidParamsResponse)
    /\ rx' = Append(rx, [id |-> next_id, text |-> PidParamsResponse[next_id]])
    /\ next_id' = next_id + 1
    /\ UNCHANGED <<config, is_connected, serial_port, tx_count, response_queue, readers,
                   ui_pc, ui_last, processed>>
    /\ UNCHANGED harnessVars
    /\ UNCHANGED processor

\* The answer on its way through the reader, the queue and the processor.
NextPidParams ==
    \/ \E r \in Readers : read_serial(r)
    \/ process_responses
    \/ device_send_pid_params

SpecPidParams == InitConnected /\ [][NextPidParams]_vars

\* The UI thread alone: connecting, disconnecting and the dispatch handlers.
DispatchStep ==
    \/ toggle_throttle
    \/ toggle_level_assistant
    \/ reset_odometer
    \/ get_config
    \/ show_help
    \/ get_calibration
    \/ get_pid_params
    \/ \E yes \in BOOLEAN : calibrate_throttle(yes)
    \/ \E v \in IntVarValues : set_motor_pulley(v)
    \/ \E v \in IntVarValues : set_wheel_pulley(v)
    \/ \E v \in IntVarValues : set_wheel_size(v)
    \/ \E v \in IntVarValues : set_motor_poles(v)
    \/ \E v \in DoubleVarValues(0, 1000) : set_pid_kp(v)
    \/ \E v \in DoubleVarValues(0, 200) : set_pid_ki(v)
    \/ \E v \in DoubleVarValues(0, 100) : set_pid_kd(v)
    \/ \E v \in DoubleVarValues(1000, 10000) : set_pid_output_max(v)

NextDispatch ==
    \/ connect_fail
    \/ connect_open
    \/ connect_set_flag
    \/ start_reading_thread
    \/ disconnect_close
    \/ disconnect_clear_port
    \/ disconnect_clear_flag
    \/ DispatchStep

SpecDispatch == Init /\ [][NextDispatch]_vars

\* ------------------------------------------------- the functions on inputs
\* The cleaner and the parsers are functions of a chunk and a configuration.
\* The specifications below start with a chunk drawn from a bounded set and
\* apply the functions to it; no thread runs.
FrameOfFunctions ==
    UNCHANGED <<is_connected, serial_port, rx, tx_count, response_queue, readers,
                processor, ui_pc, ui_last, next_id, processed>>

\* The concatenation of a sequence of texts.
RECURSIVE Concat(_)
Concat(texts) == IF texts = <<>> THEN <<>> ELSE Head(texts) \o Concat(Tail(texts))

SeqsUpTo(S, n) == UNION {[1..k -> S] : k \in 0..n}

\* A configuration in which every field differs from its default, as a
\* get_config response of a configured device leaves it.
OtherConfig ==
    [ invert_throttle |-> TRUE,
      level_assistant |-> TRUE,
      motor_pulley |-> 16,
      wheel_pulley |-> 34,
      wheel_diameter_mm |-> 120,
      motor_poles |-> 20,
      ble_connected |-> TRUE,
      pid_kp |-> 125,
      pid_ki |-> 70,
      pid_kd |-> 10,
      pid_output_max |-> 6000 ]

StartConfigs == {DefaultConfig, OtherConfig}

\* Chunks for clean_response: escape characters, a complete colour reset, the
\* tail of one, text, a log marker, the prompt, blanks and line ends.
CleanPieces ==
    { ESC, ESC \o Str("[0m"), Str("[0m"), Str("ok"), Str("I ("), Str(">"), Str(" "), NL }

CleanInputs == {Concat(pieces) : pieces \in SeqsUpTo(CleanPieces, MaxPieces)}

InitClean ==
    /\ InitProgram
    /\ chunk \in CleanInputs
    /\ plain = <<>>
    /\ cleaned = None
    /\ recleaned = None
    /\ config0 = config
    /\ phase = "input"

\* cleaned = self.clean_response(chunk)
apply_clean ==
    /\ phase = "input"
    /\ cleaned' = clean_response(chunk)
    /\ phase' = "cleaned"
    /\ UNCHANGED <<config, chunk, plain, recleaned, config0>>
    /\ FrameOfFunctions

\* recleaned = self.clean_response(cleaned), for a cleaned that is a text
apply_clean_again ==
    /\ phase = "cleaned"
    /\ cleaned # None
    /\ recleaned' = clean_response(cleaned)
    /\ phase' = "recleaned"
    /\ UNCHANGED <<config, chunk, plain, cleaned, config0>>
    /\ FrameOfFunctions

NextClean == apply_clean \/ apply_clean_again

SpecClean == InitClean /\ [][NextClean]_vars

\* Texts free of escape characters for process_response, as lines.
WrapLines ==
    { Str("Level assistant: ENABLED"),
      Str("PID Kp set to: 1.25"),
      Str("Motor Poles: 12"),
      Str("I (5) boot: [0m"),
      Str(" > ") }

WrapTexts == SeqsUpTo(WrapLines, MaxBlockLines) \ {<<>>}

\* Colour sequences: (open, close).
ColourPairs ==
    { <<ESC \o Str("[32m"), ESC \o Str("[0m")>>,
      <<ESC \o Str("[1;31m"), ESC \o Str("[m")>> }

InitWrap ==
    /\ InitIdle
    /\ config \in StartConfigs
    /\ plain \in WrapTexts
    /\ chunk = str_join(plain)
    /\ cleaned = None
    /\ recleaned = None
    /\ config0 = config
    /\ phase = "input"

\* The device colours some of the lines of the text.
wrap_some_lines ==
    /\ phase = "input"
    /\ \E colour \in ColourPairs : \E wrapped \in SUBSET (1..Len(plain)) :
        /\ wrapped # {}
        /\ chunk' = str_join([i \in 1..Len(plain) |->
                        IF i \in wrapped THEN colour[1] \o plain[i] \o colour[2]
                        ELSE plain[i]])
    /\ phase' = "wrapped"
    /\ UNCHANGED <<config, plain, cleaned, recleaned, config0>>
    /\ FrameOfFunctions

\* The device colours the text as a whole.
wrap_text ==
    /\ phase = "input"
    /\ \E colour \in ColourPairs : chunk' = colour[1] \o str_join(plain) \o colour[2]
    /\ phase' = "wrapped"
    /\ UNCHANGED <<config, plain, cleaned, recleaned, config0>>
    /\ FrameOfFunctions

\* self.process_response(chunk); cleaned is its local cleaned_response
apply_process ==
    /\ phase = "wrapped"
    /\ cleaned' = clean_response(chunk)
    /\ config' = process_response(config, chunk)
    /\ phase' = "processed"
    /\ UNCHANGED <<chunk, plain, recleaned, config0>>
    /\ FrameOfFunctions

NextWrap == wrap_some_lines \/ wrap_text \/ apply_process

SpecWrap == InitWrap /\ [][NextWrap]_vars

\* Chunks for parse_config_response, as lines.  Each table gives a line and
\* what the device means by it: the field it reports, whether its value is a
\* number Python reads, and the value.
ThrottleLines ==
    { Str("Throttle inversion: ENABLED"), Str("Throttle inversion: DISABLED"), Str("ok") }

ThrottleBlocks == SeqsUpTo(ThrottleLines, MaxBlockLines)

Row(text, field, ok, val) == [text |-> text, field |-> field, ok |-> ok, val |-> val]

DisplayRows ==
    << Row(Str("Current Configuration:"), "none", FALSE, 0),
       Row(Str("Throttle Inverted: Yes"), "invert_throttle", TRUE, TRUE),
       Row(Str("BLE Connected: No"), "ble_connected", TRUE, FALSE),
       Row(Str("Motor Pulley Teeth: 18"), "motor_pulley", TRUE, 18),
       Row(Str("Motor Pulley Teeth: abc"), "motor_pulley", FALSE, 0),
       Row(Str("Wheel Pulley Teeth: 36"), "wheel_pulley", TRUE, 36),
       Row(Str("Wheel Diameter: 90 mm"), "wheel_diameter_mm", TRUE, 90),
       Row(Str("Motor Poles: 1x"), "motor_poles", FALSE, 0) >>

DisplayBlocks ==
    SeqsUpTo({DisplayRows[k].text : k \in DOMAIN DisplayRows}, MaxBlockLines)

PidMarkers ==
    { <<Str("PID Kp set to:"), "pid_kp">>,
      <<Str("PID Ki set to:"), "pid_ki">>,
      <<Str("PID Kd set to:"), "pid_kd">>,
      <<Str("PID Output Max set to:"), "pid_output_max">> }

FloatPayloads ==
    { <<Str("1.25"), TRUE, 125>>,
      <<Str("0.3"), TRUE, 30>>,
      <<Str(" 10 "), TRUE, 1000>>,
      <<Str("-2.5"), TRUE, -250>>,
      <<Str(".5"), TRUE, 50>>,
      <<Str("abc"), FALSE, 0>>,
      <<Str("1.2.3"), FALSE, 0>>,
      <<Str("1,5"), FALSE, 0>>,
      <<Str(""), FALSE, 0>> }

PidSetRows ==
    { Row(m[1] \o Str(" ") \o p[1], m[2], p[2], p[3]) : m \in PidMarkers, p \in FloatPayloads }

PidSetChunks == {<<row.text>> : row \in PidSetRows}

\* Chunks with a marker whose payload is missing, empty or no number, with a
\* colon and no value, and with no marker at all.
MalformedChunks ==
    { <<Str("Motor poles set to:")>>,
      <<Str("Wheel diameter set to: mm")>>,
      <<Str("Wheel pulley teeth set to: 3 6")>>,
      <<Str("PID Kd set to:"), Str("ok")>>,
      <<Str("Motor Poles:")>>,
      <<Str("Wheel Diameter:  mm")>>,
      <<Str(":")>>,
      <<Str("hello")>>,
      <<Str("=== Level Assistant PID Parameters ==="), Str("Kp (Proportional): x")>>,
      <<Str("=== Level Assistant PID Parameters ==="), Str("Output Max:")>> }

\* Confirmation lines of the set commands, and a line that reports nothing.
ConfirmationRows ==
    { Row(Str("PID Kp set to: 1.0"), "pid_kp", TRUE, 100),
      Row(Str("PID Ki set to: 0.5"), "pid_ki", TRUE, 50),
      Row(Str("Motor pulley teeth set to: 16"), "motor_pulley", TRUE, 16),
      Row(Str("ok"), "none", FALSE, 0) }

ConfirmationBlocks == SeqsUpTo({row.text : row \in ConfirmationRows}, MaxBlockLines)

\* Display lines whose key differs from an accepted key in letter case only,
\* each with the line in the accepted spelling.
CasePairs ==
    { <<Str("MOTOR POLES: 14"), Str("Motor Poles: 14")>>,
      <<Str("motor poles: 14"), Str("Motor Poles: 14")>>,
      <<Str("Motor poles: 14"), Str("Motor Poles: 14")>>,
      <<Str("level assistant: No"), Str("Level Assistant: No")>>,
      <<Str("WHEEL DIAMETER: 90 mm"), Str("Wheel Diameter: 90 mm")>> }

ParseInputs ==
    ThrottleBlocks \cup DisplayBlocks \cup PidSetChunks \cup MalformedChunks
        \cup ConfirmationBlocks
        \cup {<<Str("Current Configuration:"), pair[k]>> : pair \in CasePairs, k \in 1..2}

InitParse ==
    /\ InitIdle
    /\ config \in StartConfigs
    /\ plain \in ParseInputs
    /\ chunk = str_join(plain)
    /\ cleaned = None
    /\ recleaned = None
    /\ config0 = config
    /\ phase = "input"

\* self.parse_config_response(chunk): the call returns or raises.
apply_parse ==
    /\ phase = "input"
    /\ config' = parse_config_response(config, chunk)
    /\ phase' = IF parse_config_response_raises(chunk) = "none" THEN "parsed" ELSE "raised"
    /\ UNCHANGED <<chunk, plain, cleaned, recleaned, config0>>
    /\ FrameOfFunctions

NextParse == apply_parse

SpecParse == InitParse /\ [][NextParse]_vars

\* ------------------------------------------------------------------ claims
\* C1: no dispatch handler run on the UI thread changes a configuration
\* field, whatever the value and whether or not the write succeeds.
C1_DispatchLeavesConfig == [][DispatchStep => config' = config]_vars

\* C1: set_pid_kp has stored an accepted value in self.config although the
\* write to the port raised.
C1_ConfigWrittenByDispatch ==
    /\ ui_last = Event("set_pid_kp", 1000, "send_error")
    /\ config.pid_kp = 1000
    /\ tx_count = 0

\* C2: a dispatch handler invoked while is_connected is false writes nothing
\* to the port, ends in the not-connected warning, and leaves the connection
\* state and the configuration as they were.
C2_NoSendWhenDisconnected ==
    [][(~is_connected /\ DispatchStep) =>
        /\ tx_count' = tx_count
        /\ ui_last'.outcome = "not_connected"
        /\ is_connected' = is_connected
        /\ serial_port' = serial_port
        /\ config' = config]_vars

\* C2: a handler has been refused after an earlier connection over which a
\* command was sent.
C2_RefusedAfterDisconnect ==
    /\ ~is_connected
    /\ ui_last.outcome = "not_connected"
    /\ tx_count > 0

\* While connected, a step of the set handler A writes its command exactly
\* when inRange holds (the write itself can still raise); otherwise the value
\* is refused and nothing is written.
WrittenExactlyWhen(A, inRange) ==
    (is_connected /\ A) =>
        IF inRange
        THEN /\ ui_last'.outcome \in {"sent", "send_error"}
             /\ ui_last'.outcome = "sent" <=> tx_count' = tx_count + 1
             /\ ui_last'.outcome = "send_error" <=> tx_count' = tx_count
        ELSE /\ ui_last'.outcome \in {"rejected", "invalid"}
             /\ tx_count' = tx_count

InClosedRange(v, lo, hi) == v.ok /\ lo <= v.val /\ v.val <= hi

\* The step is one of handler h (every handler leaves its name in ui_last).
StepOf(h) == ui_last'.handler = h /\ ui_pc = "idle" /\ ui_pc' = "idle"

\* C3: while connected, a set command is written exactly when its value is in
\* range: 1..255 for the four integer setters, [0.0, 10.0] for Kp, [0.0, 2.0]
\* for Ki, [0.0, 1.0] for Kd and [10.0, 100.0] for the output maximum, bounds
\* included; any other value is rejected with nothing written.
C3_SetCommandRange ==
    [][/\ StepOf("set_motor_pulley") => \A v \in IntVarValues :
            WrittenExactlyWhen(set_motor_pulley(v), InClosedRange(v, 1, 255))
       /\ StepOf("set_wheel_pulley") => \A v \in IntVarValues :
            WrittenExactlyWhen(set_wheel_pulley(v), InClosedRange(v, 1, 255))
       /\ StepOf("set_wheel_size") => \A v \in IntVarValues :
            WrittenExactlyWhen(set_wheel_size(v), InClosedRange(v, 1, 255))
       /\ StepOf("set_motor_poles") => \A v \in IntVarValues :
            WrittenExactlyWhen(set_motor_poles(v), InClosedRange(v, 1, 255))
       /\ StepOf("set_pid_kp") => \A v \in DoubleVarValues(0, 1000) :
            WrittenExactlyWhen(set_pid_kp(v), InClosedRange(v, 0, 1000))
       /\ StepOf("set_pid_ki") => \A v \in DoubleVarValues(0, 200) :
            WrittenExactlyWhen(set_pid_ki(v), InClosedRange(v, 0, 200))
       /\ StepOf("set_pid_kd") => \A v \in DoubleVarValues(0, 100) :
            WrittenExactlyWhen(set_pid_kd(v), InClosedRange(v, 0, 100))
       /\ StepOf("set_pid_output_max") => \A v \in DoubleVarValues(1000, 10000) :
            WrittenExactlyWhen(set_pid_output_max(v), InClosedRange(v, 1000, 10000))
      ]_vars

\* C3: both ends of a range have been accepted: the output maximum 100.0 was
\* written as the second command of the run.
C3_BoundsAccepted ==
    /\ ui_last = Event("set_pid_output_max", 10000, "sent")
    /\ config.pid_output_max = 10000
    /\ tx_count = 2

\* C4: the processor sees every enqueued line once and in the order in which
\* the device sent the lines, across any connects and disconnects.
C4_ProcessedInOrder ==
    \A i \in 1..Len(processed) : \A j \in 1..Len(processed) :
        i < j => processed[i] < processed[j]

\* C4: two read_serial threads are alive on the reopened port, and the line
\* the device sent second has been processed before the first.
C4_ProcessedOutOfOrder ==
    /\ processed = <<2, 1>>
    /\ is_connected
    /\ \A r \in Readers : Alive(r)

\* Indexes of the throttle inversion lines among the lines of a chunk.
ThrottleIndexes(lines) ==
    {i \in 1..Len(lines) :
        lines[i] \in {Str("Throttle inversion: ENABLED"), Str("Throttle inversion: DISABLED")}}

\* C5: after parsing a chunk with throttle inversion lines, invert_throttle is
\* what the last of these lines says: true for ENABLED, false for DISABLED.
C5_LastThrottleLineWins ==
    (phase = "parsed" /\ plain \in ThrottleBlocks /\ ThrottleIndexes(plain) # {}) =>
        config.invert_throttle =
            (plain[Max(ThrottleIndexes(plain))] = Str("Throttle inversion: ENABLED"))

\* C5: ENABLED followed by DISABLED in one chunk has left invert_throttle true.
C5_EnabledBeatsLaterDisabled ==
    /\ phase = "parsed"
    /\ plain = <<Str("Throttle inversion: ENABLED"), Str("Throttle inversion: DISABLED")>>
    /\ ~config0.invert_throttle
    /\ config.invert_throttle

\* C6: clean_response returns None for every chunk that contains none of the
\* log markers.
C6_NoMarkerGivesNone ==
    (phase = "cleaned" /\ ~\E marker \in skip_patterns : Contains(chunk, marker)) =>
        cleaned = None

\* A line the cleaner has no use for: empty or the prompt once trimmed, or a
\* log line.
LineDropped(line) ==
    \/ str_strip(line) \in {<<>>, Str(">")}
    \/ \E marker \in skip_patterns : Contains(line, marker)

\* C6: clean_response returns None exactly when every line of the chunk, with
\* its escape sequences removed, is blank, the prompt ">" alone, or contains a
\* log marker; any other chunk, with or without markers, comes back as text.
C6_NoneWhenEveryLineDropped ==
    phase = "cleaned" =>
        (cleaned = None <=>
            \A i \in 1..Len(str_split(ansi_escape_sub(chunk, 1), NL)) :
                LineDropped(str_split(ansi_escape_sub(chunk, 1), NL)[i]))

\* C6: a chunk of a log line and a prompt has been cleaned to None.
C6_LogAndPromptGiveNone ==
    /\ phase = "cleaned"
    /\ chunk = Str("I (") \o NL \o Str(">")
    /\ cleaned = None

\* C7: cleaning a cleaned text again gives the same text.
C7_CleanIdempotent == phase = "recleaned" => recleaned = cleaned

\* C7: an escape sequence inside an escape sequence: the first cleaning left
\* the outer one, the second cleaning removed it and nothing remained.
C7_NestedEscapeCleanedTwice ==
    /\ phase = "recleaned"
    /\ chunk = ESC \o ESC \o Str("[0m") \o Str("[0m")
    /\ cleaned = ESC \o Str("[0m")
    /\ recleaned = None

\* C8: a text without escape characters, coloured as a whole or line by line,
\* is cleaned to the same text as the plain text and leaves, from the same
\* starting configuration, the same configuration as the plain text.
C8_WrappedSameAsPlain ==
    phase = "processed" =>
        /\ cleaned = clean_response(str_join(plain))
        /\ config = process_response(config0, str_join(plain))

\* C8: a coloured "Level assistant: ENABLED" has been cleaned to the bare line
\* and has switched the field on.
C8_ColouredLineParsed ==
    /\ phase = "processed"
    /\ chunk = ESC \o Str("[32m") \o Str("Level assistant: ENABLED") \o ESC \o Str("[0m")
    /\ cleaned = Str("Level assistant: ENABLED")
    /\ ~config0.level_assistant
    /\ config.level_assistant

\* The table row of a display line.
DisplayRow(text) == DisplayRows[CHOOSE k \in DOMAIN DisplayRows : DisplayRows[k].text = text]

\* Index of the last line of the block that reports field with a value that
\* parses, 0 when there is none.
LastSetting(lines, field) ==
    MaxOr({i \in 1..Len(lines) :
              DisplayRow(lines[i]).field = field /\ DisplayRow(lines[i]).ok}, 0)

\* C9: after a display block is parsed, every field holds the value of the
\* last line that reports it with a value that parses, and its prior value
\* when there is no such line: a line that fails neither changes its field nor
\* stops the lines after it.
C9_DisplayLinesIndependent ==
    (phase = "parsed" /\ plain \in DisplayBlocks) =>
        \A field \in DOMAIN config :
            config[field] =
                IF LastSetting(plain, field) = 0 THEN config0[field]
                ELSE DisplayRow(plain[LastSetting(plain, field)]).val

\* C9: the line after a line that failed has been applied.
C9_LineAfterFailureApplied ==
    /\ phase = "parsed"
    /\ plain = <<Str("Motor Pulley Teeth: abc"), Str("Wheel Pulley Teeth: 36")>>
    /\ config.motor_pulley = config0.motor_pulley
    /\ config.wheel_pulley = 36
    /\ config0.wheel_pulley # 36

\* C10: after the single line "PID <name> set to: v" is parsed, the field of
\* <name> is v when v is a number and its prior value otherwise, and every
\* other field is as before.
C10_PidSetLine ==
    \A row \in PidSetRows :
        (phase = "parsed" /\ plain = <<row.text>>) =>
            config = [config0 EXCEPT ![row.field] =
                         IF row.ok THEN row.val ELSE config0[row.field]]

\* C10: "PID Kp set to: 1.25" has set pid_kp to 1.25.
C10_KpSet ==
    /\ phase = "parsed"
    /\ chunk = Str("PID Kp set to: 1.25")
    /\ config0.pid_kp = 80
    /\ config.pid_kp = 125

\* C11: parse_config_response returns normally for every cleaned text: a marker
\* with a missing, empty or non-numeric payload, a line with a colon and no
\* value, and text with no marker raise nothing to the caller.
C11_ParseReturnsNormally == phase # "raised"

\* A marker without payload was parsed: the call returned and changed nothing.
C11_MissingPayloadAbsorbed ==
    /\ phase = "parsed"
    /\ plain = <<Str("Motor poles set to:")>>
    /\ config = config0

\* C12: once disconnect has returned, every reader thread started for an
\* earlier connection eventually terminates, whatever the user does next.
C12_ReaderEndsAfterDisconnect ==
    \A r \in Readers : (Alive(r) /\ ~is_connected /\ ui_pc = "idle") ~> ~Alive(r)

\* C12: after a disconnect and a new connect, the reader of the first
\* connection and the reader of the second both poll the reopened port.
C12_OldReaderPollsNewPort ==
    /\ is_connected
    /\ ui_pc = "idle"
    /\ \A r \in Readers : readers[r].pc = "in_waiting"

\* C13: when the processor takes a chunk that is one display line with an
\* accepted key, the field of that key gets the line's value: "Level
\* Assistant: Yes" sets level_assistant, "Motor Poles: 0" sets motor_poles.
C13_KeyLineUpdatesField ==
    [][/\ (process_responses /\ Head(response_queue).text = Str("Level Assistant: Yes"))
            => config'.level_assistant = TRUE
       /\ (process_responses /\ Head(response_queue).text = Str("Motor Poles: 0"))
            => config'.motor_poles = 0
      ]_vars

\* C14: in every reachable state the integer fields motor_pulley,
\* wheel_pulley, wheel_diameter_mm and motor_poles lie in 1..255.
C14_IntegerFieldsInRange ==
    \A field \in {"motor_pulley", "wheel_pulley", "wheel_diameter_mm", "motor_poles"} :
        config[field] \in 1..255

\* C14: the device line "Motor Poles: 0" has been read, queued and processed,
\* and motor_poles is 0.
C14_PolesZeroStored ==
    /\ processed # <<>>
    /\ config.motor_poles = 0

\* Indexes of the lines of a display block whose value does not parse.
FailedLines(lines) ==
    {i \in 1..Len(lines) :
        DisplayRow(lines[i]).field # "none" /\ ~DisplayRow(lines[i]).ok}

\* C15: when a display block contains a line whose value fails to parse, the
\* fields of the lines before the first such line are updated and the fields of
\* all lines after it are left untouched.
C15_FailureStopsLaterLines ==
    (phase = "parsed" /\ plain \in DisplayBlocks /\ FailedLines(plain) # {}) =>
        \A field \in DOMAIN config :
            config[field] =
                IF LastSetting(SubSeq(plain, 1, Min(FailedLines(plain)) - 1), field) = 0
                THEN config0[field]
                ELSE DisplayRow(plain[LastSetting(SubSeq(plain, 1,
                                         Min(FailedLines(plain)) - 1), field)]).val

\* C15: when a display block contains a line whose value fails to parse, only
\* that line is skipped: every line with a value that parses, before or after
\* it, sets its field (the last such line of a field decides), and the field
\* of the failed line keeps its prior value when no other line sets it.
C15_FailureSkipsOnlyItsLine ==
    (phase = "parsed" /\ plain \in DisplayBlocks /\ FailedLines(plain) # {}) =>
        \A i \in 1..Len(plain) :
            /\ (DisplayRow(plain[i]).ok /\ LastSetting(plain, DisplayRow(plain[i]).field) = i)
                   => config[DisplayRow(plain[i]).field] = DisplayRow(plain[i]).val
            /\ (i \in FailedLines(plain) /\ LastSetting(plain, DisplayRow(plain[i]).field) = 0)
                   => config[DisplayRow(plain[i]).field] = config0[DisplayRow(plain[i]).field]

\* C15: "Motor Poles: 1x" failed and the line after it set the wheel diameter.
C15_DiameterSetAfterFailure ==
    /\ phase = "parsed"
    /\ plain = <<Str("Motor Poles: 1x"), Str("Wheel Diameter: 90 mm")>>
    /\ config.motor_poles = config0.motor_poles
    /\ config.wheel_diameter_mm = 90
    /\ config0.wheel_diameter_mm # 90

\* C16: after a chunk of several confirmation lines is parsed, every field
\* whose line carries a value that parses holds that value.
C16_EveryConfirmationApplied ==
    (phase = "parsed" /\ plain \in ConfirmationBlocks) =>
        \A row \in ConfirmationRows :
            (row.ok /\ \E i \in 1..Len(plain) : plain[i] = row.text) =>
                config[row.field] = row.val

\* C16: of "PID Kp set to: 1.0" followed by "PID Ki set to: 0.5" only the
\* second line has been applied.
C16_OnlyLastConfirmationApplied ==
    /\ phase = "parsed"
    /\ plain = <<Str("PID Kp set to: 1.0"), Str("PID Ki set to: 0.5")>>
    /\ config.pid_kp = config0.pid_kp
    /\ config0.pid_kp # 100
    /\ config.pid_ki = 50

\* C17: once the header and the four parameter lines of the answer to
\* get_pid_params have passed the reader, the queue and the processor, the
\* configuration holds the four values of the answer.
C17_PidParamsApplied ==
    Len(processed) = Len(PidParamsResponse) =>
        /\ config.pid_kp = 150
        /\ config.pid_ki = 70
        /\ config.pid_kd = 10
        /\ config.pid_output_max = 6000

\* C17: all five lines have been processed, each as a chunk of its own, and
\* the configuration is the one the program started with.
C17_PidParamsIgnored ==
    /\ processed = <<1, 2, 3, 4, 5>>
    /\ response_queue = <<>>
    /\ config = DefaultConfig

\* C18: the processor thread never stops, and under fair scheduling every
\* line placed on the queue is eventually processed, whatever the chunks
\* before it were and whether or not the connection is still up.
C18_QueuedLineProcessed ==
    /\ [](processor = "running")
    /\ \A id \in 1..MaxLines :
           (\E i \in DOMAIN response_queue : response_queue[i].id = id)
               ~> (\E i \in DOMAIN processed : processed[i] = id)

\* C18: after the disconnect, with one line processed, a confirmation whose
\* payload is no number waits on the queue.
C18_MalformedQueuedAfterDisconnect ==
    /\ ~is_connected
    /\ serial_port = "None"
    /\ processed = <<1>>
    /\ response_queue = <<[id |-> 2, text |-> Str("PID Kp set to: abc")]>>

\* C19: a connect whose open fails reports the error and returns:
\* is_connected stays false, serial_port keeps its value, no reader thread is
\* started, and the UI thread is idle again without another attempt.
C19_FailedOpenAborts ==
    [][connect_fail =>
        /\ ui_last' = Event("connect", 0, "failed")
        /\ is_connected' = FALSE
        /\ serial_port' = serial_port
        /\ readers' = readers
        /\ ui_pc' = "idle"]_vars

\* C19: after a connection that was closed again, an open has failed: the
\* program is disconnected with no port object.
C19_FailedAfterDisconnect ==
    /\ ui_last = Event("connect", 0, "failed")
    /\ ui_pc = "idle"
    /\ ~is_connected
    /\ serial_port = "None"
    /\ next_id > 1

\* C20: in a display response, a line whose key differs from an accepted key
\* only in letter case leaves the same configuration as the line with the
\* accepted spelling.
C20_KeyCaseIgnored ==
    \A pair \in CasePairs :
        (phase = "parsed" /\ plain = <<Str("Current Configuration:"), pair[1]>>) =>
            config = parse_config_response(config0,
                         str_join(<<Str("Current Configuration:"), pair[2]>>))

\* C20: "MOTOR POLES: 14" in a display response has changed nothing.
C20_UpperCaseKeyIgnored ==
    /\ phase = "parsed"
    /\ plain = <<Str("Current Configuration:"), Str("MOTOR POLES: 14")>>
    /\ config0.motor_poles = 20
    /\ config = config0

\* C21: at most one read_serial thread is alive at any time, whatever
\* connects and disconnects have happened.
C21_AtMostOneReader == Cardinality({r \in Readers : Alive(r)}) <= 1

\* C21: two read_serial threads have each read a line of the reopened port
\* and are about to put it on the queue.
C21_TwoReadersHoldLines ==
    /\ is_connected
    /\ Cardinality({r \in Readers : readers[r].pc = "put"}) = 2

\* C22: whenever is_connected is true and the UI thread is not inside connect
\* or disconnect, a read_serial thread is alive.
C22_ConnectedHasReader ==
    (is_connected /\ ui_pc = "idle") => \E r \in Readers : Alive(r)

\* C22: the only reader has ended on a read error; the port is still open and
\* is_connected is still true.
C22_ConnectedWithoutReader ==
    /\ is_connected
    /\ serial_port = "open"
    /\ ui_pc = "idle"
    /\ readers[1].pc = "done"
    /\ \A r \in Readers : ~Alive(r)

\* C23: whenever the UI thread is not inside connect or disconnect,
\* is_connected is true exactly when serial_port is an open port object.
C23_FlagMatchesPort ==
    ui_pc = "idle" => (is_connected <=> serial_port = "open")

\* C23: connected for the second time: the reader of the first connection has
\* ended, the flag is set and the port is open.
C23_ConnectedAgain ==
    /\ ui_pc = "idle"
    /\ ui_last = Event("connect", 0, "connected")
    /\ is_connected
    /\ serial_port = "open"
    /\ \E r \in Readers : readers[r].pc = "done"

\* C24: once disconnect has returned (and no new connect has begun), no
\* read_serial thread puts a line on the queue.
C24_NoPutAfterDisconnect ==
    [][~(/\ ~is_connected
         /\ ui_pc = "idle"
         /\ \E r \in Readers : read_serial_put(r))]_vars

\* C24: disconnect has returned while a read_serial thread holds a line it
\* read before; its next step puts the line on the queue.
C24_LineHeldAcrossDisconnect ==
    /\ ~is_connected
    /\ serial_port = "None"
    /\ ui_pc = "idle"
    /\ ui_last = Event("disconnect", 0, "disconnected")
    /\ response_queue = <<>>
    /\ \E r \in Readers : readers[r].pc = "put"

====
